---- MODULE Spec2Model ----
(***************************************************************************)
(* Model of the discovery-orchestration core (Core_Framework.py):          *)
(* DiscoveryFinding.to_dict, the per-module loop of                        *)
(* DiscoveryOrchestrator.run with its normalization of heterogeneous       *)
(* finding shapes, and the timestamp wire format; of the reports made from *)
(* a run (Output_Reporting.py) and of NetworkDiscoveryModule.execute       *)
(* (Network_Discovery_Domain.py).                                          *)
(*                                                                         *)
(* Spec is one call of run, SpecSession a caller that calls run again and  *)
(* reports each result, SpecStamp the conversions of a timestamp,          *)
(* SpecNetwork one call of the network module's execute.                   *)
(*                                                                         *)
(* Strings are sequences of one-character strings, so that the            *)
(* formatting, the two str.replace calls and the ISO-8601 parse are        *)
(* computed character by character.                                        *)
(***************************************************************************)
EXTENDS Integers, Sequences, FiniteSets, TLC

\* ------------------------------------------------------------------------
\* Bounds of the model
\* ------------------------------------------------------------------------

\* longest module list handed to the orchestrator
MaxModules == 2

\* longest sequence of well-known items a module's execute returns
MaxItems == 2

\* last day of the month used by the sampled timestamps (first is day 2, so
\* that a shift to UTC never leaves the month)
MaxDay == 3

\* ------------------------------------------------------------------------
\* Characters and strings
\* ------------------------------------------------------------------------

DigitChars == <<"0", "1", "2", "3", "4", "5", "6", "7", "8", "9">>

Digit(n) == DigitChars[n + 1]

IsDigit(c) == \E k \in 1..10 : DigitChars[k] = c

DigitVal(c) == (CHOOSE k \in 1..10 : DigitChars[k] = c) - 1

AllDigits(s) == \A k \in 1..Len(s) : IsDigit(s[k])

RECURSIVE NumVal(_)
NumVal(s) ==
    IF s = <<>> THEN 0
    ELSE 10 * NumVal(SubSeq(s, 1, Len(s) - 1)) + DigitVal(s[Len(s)])

Pad2(n) == <<Digit((n \div 10) % 10), Digit(n % 10)>>

Pad4(n) == Pad2(n \div 100) \o Pad2(n % 100)

Pad6(n) == Pad2(n \div 10000) \o Pad4(n % 10000)

RECURSIVE Pow10(_)
Pow10(k) == IF k = 0 THEN 1 ELSE 10 * Pow10(k - 1)

StartsWith(s, p) == Len(s) >= Len(p) /\ SubSeq(s, 1, Len(p)) = p

\* str.replace(old, new): every non-overlapping occurrence, left to right
RECURSIVE Replace(_, _, _)
Replace(s, old, new) ==
    IF s = <<>> THEN <<>>
    ELSE IF StartsWith(s, old)
         THEN new \o Replace(SubSeq(s, Len(old) + 1, Len(s)), old, new)
         ELSE <<s[1]>> \o Replace(SubSeq(s, 2, Len(s)), old, new)

PlusZero == <<"+", "0", "0", ":", "0", "0">>

Zulu == <<"Z">>

\* ------------------------------------------------------------------------
\* datetime values
\* ------------------------------------------------------------------------

\* a datetime.datetime; tz is the utcoffset in minutes when aware
DateTime(y, mo, d, h, mi, s, us, aware, off) ==
    [year |-> y, month |-> mo, day |-> d, hour |-> h, minute |-> mi,
     second |-> s, microsecond |-> us, aware |-> aware, utcoffset |-> off]

IsLeap(y) == (y % 4 = 0 /\ y % 100 # 0) \/ y % 400 = 0

DaysInMonth(y, mo) ==
    IF mo = 2 THEN (IF IsLeap(y) THEN 29 ELSE 28)
    ELSE IF mo \in {4, 6, 9, 11} THEN 30 ELSE 31

\* a conversion that relabels the wall-clock time as UTC without shifting it
AsTimezoneUtcRelabel(dt) ==
    DateTime(dt.year, dt.month, dt.day, dt.hour, dt.minute, dt.second,
             dt.microsecond, TRUE, 0)

\* datetime.astimezone(timezone.utc) of an aware datetime whose shift stays
\* inside its month
AsTimezoneUtc(dt) ==
    LET total == dt.hour * 60 + dt.minute - dt.utcoffset
        shift == total \div 1440
        rest  == total % 1440
    IN  DateTime(dt.year, dt.month, dt.day + shift, rest \div 60, rest % 60,
                 dt.second, dt.microsecond, TRUE, 0)

Abs(n) == IF n < 0 THEN -n ELSE n

\* an isoformat that stops at the seconds
IsoFormatSeconds(dt) ==
    Pad4(dt.year) \o <<"-">> \o Pad2(dt.month) \o <<"-">> \o Pad2(dt.day)
    \o <<"T">> \o Pad2(dt.hour) \o <<":">> \o Pad2(dt.minute)
    \o <<":">> \o Pad2(dt.second)
    \o (IF dt.aware
        THEN <<IF dt.utcoffset < 0 THEN "-" ELSE "+">>
             \o Pad2(Abs(dt.utcoffset) \div 60) \o <<":">>
             \o Pad2(Abs(dt.utcoffset) % 60)
        ELSE <<>>)

\* datetime.isoformat()
IsoFormat(dt) ==
    Pad4(dt.year) \o <<"-">> \o Pad2(dt.month) \o <<"-">> \o Pad2(dt.day)
    \o <<"T">> \o Pad2(dt.hour) \o <<":">> \o Pad2(dt.minute)
    \o <<":">> \o Pad2(dt.second)
    \o (IF dt.microsecond # 0 THEN <<".">> \o Pad6(dt.microsecond) ELSE <<>>)
    \o (IF dt.aware
        THEN <<IF dt.utcoffset < 0 THEN "-" ELSE "+">>
             \o Pad2(Abs(dt.utcoffset) \div 60) \o <<":">>
             \o Pad2(Abs(dt.utcoffset) % 60)
        ELSE <<>>)

NoDateTime == DateTime(0, 0, 0, 0, 0, 0, 0, FALSE, 0)

ParseOk(dt) == [ok |-> TRUE, dt |-> dt]

ParseError == [ok |-> FALSE, dt |-> NoDateTime]

\* the date part "YYYY-MM-DD"
ValidDatePart(s) ==
    /\ Len(s) = 10
    /\ s[5] = "-" /\ s[8] = "-"
    /\ AllDigits(SubSeq(s, 1, 4)) /\ AllDigits(SubSeq(s, 6, 7))
    /\ AllDigits(SubSeq(s, 9, 10))
    /\ NumVal(SubSeq(s, 1, 4)) >= 1
    /\ NumVal(SubSeq(s, 6, 7)) \in 1..12
    /\ NumVal(SubSeq(s, 9, 10)) \in
          1..DaysInMonth(NumVal(SubSeq(s, 1, 4)), NumVal(SubSeq(s, 6, 7)))

\* the time part "HH[:MM[:SS[.f{1,6}]]]"
ValidTimePart(s) ==
    /\ Len(s) \in {2, 5, 8} \cup 10..15
    /\ AllDigits(SubSeq(s, 1, 2)) /\ NumVal(SubSeq(s, 1, 2)) <= 23
    /\ Len(s) >= 5 =>
          /\ s[3] = ":" /\ AllDigits(SubSeq(s, 4, 5))
          /\ NumVal(SubSeq(s, 4, 5)) <= 59
    /\ Len(s) >= 8 =>
          /\ s[6] = ":" /\ AllDigits(SubSeq(s, 7, 8))
          /\ NumVal(SubSeq(s, 7, 8)) <= 59
    /\ Len(s) >= 10 =>
          /\ s[9] = "." /\ AllDigits(SubSeq(s, 10, Len(s)))

\* the offset part "+HH:MM" or "-HH:MM"
ValidOffsetPart(s) ==
    /\ Len(s) = 6
    /\ s[1] \in {"+", "-"}
    /\ AllDigits(SubSeq(s, 2, 3)) /\ s[4] = ":" /\ AllDigits(SubSeq(s, 5, 6))
    /\ NumVal(SubSeq(s, 2, 3)) <= 23 /\ NumVal(SubSeq(s, 5, 6)) <= 59

OffsetVal(s) ==
    (IF s[1] = "-" THEN -1 ELSE 1)
      * (NumVal(SubSeq(s, 2, 3)) * 60 + NumVal(SubSeq(s, 5, 6)))

\* index of the first sign character of s, or Len(s) + 1
RECURSIVE SignPos(_, _)
SignPos(s, k) ==
    IF k > Len(s) THEN k
    ELSE IF s[k] \in {"+", "-"} THEN k ELSE SignPos(s, k + 1)

\* datetime.fromisoformat(s): the date, then after one separator character
\* the time and, from the first sign on, the offset.  Spellings whose
\* acceptance depends on the interpreter's version (basic format, offsets
\* without minutes) are not among the sampled strings.
FromIsoFormat(s) ==
    IF Len(s) < 10 \/ ~ValidDatePart(SubSeq(s, 1, 10)) THEN ParseError
    ELSE
      LET y  == NumVal(SubSeq(s, 1, 4))
          mo == NumVal(SubSeq(s, 6, 7))
          d  == NumVal(SubSeq(s, 9, 10))
      IN  IF Len(s) = 10 THEN ParseOk(DateTime(y, mo, d, 0, 0, 0, 0, FALSE, 0))
          ELSE
            LET rest == SubSeq(s, 12, Len(s))
                p    == SignPos(rest, 1)
                tm   == SubSeq(rest, 1, p - 1)
                tz   == SubSeq(rest, p, Len(rest))
            IN  IF ~ValidTimePart(tm) \/ (tz # <<>> /\ ~ValidOffsetPart(tz))
                THEN ParseError
                ELSE
                  LET h   == NumVal(SubSeq(tm, 1, 2))
                      mi  == IF Len(tm) >= 5 THEN NumVal(SubSeq(tm, 4, 5)) ELSE 0
                      sec == IF Len(tm) >= 8 THEN NumVal(SubSeq(tm, 7, 8)) ELSE 0
                      us  == IF Len(tm) >= 10
                             THEN NumVal(SubSeq(tm, 10, Len(tm)))
                                    * Pow10(6 - (Len(tm) - 9))
                             ELSE 0
                  IN  ParseOk(DateTime(y, mo, d, h, mi, sec, us, tz # <<>>,
                                       IF tz # <<>> THEN OffsetVal(tz) ELSE 0))

\* ------------------------------------------------------------------------
\* Core data model
\* ------------------------------------------------------------------------

\* a DiscoveryContext object: id stands for the object's identity, the other
\* field for its (structurally compared) content
DiscoveryContext(id, target) == [id |-> id, target |-> target]

\* the value of an observed_at attribute or key: a datetime or a str
ObsDateTime(dt) == [type |-> "datetime", dt |-> dt, str |-> <<>>]

ObsStr(s) == [type |-> "str", dt |-> NoDateTime, str |-> s]

\* a DiscoveryFinding (the dataclass checks no field); confidence is in
\* hundredths
DiscoveryFinding(domain, category, target, evidence, confidence, observed_at) ==
    [domain |-> domain, category |-> category, target |-> target,
     evidence |-> evidence, confidence |-> confidence,
     observed_at |-> observed_at]

FindingFields ==
    {"domain", "category", "target", "evidence", "confidence", "observed_at"}

NoFinding == DiscoveryFinding("", "", "", [method |-> ""], 0, ObsStr(<<>>))

\* DiscoveryFinding.to_dict: asdict, then observed_at as the UTC ISO string
\* with "+00:00" replaced by "Z".  A str has no astimezone: AttributeError.
ToDictRaises(f) == f.observed_at.type # "datetime"

\* a to_dict that leaves isoformat's "+00:00" in place
ToDictPlusZero(f) ==
    [f EXCEPT !.observed_at = ObsStr(IsoFormat(AsTimezoneUtc(f.observed_at.dt)))]

ToDict(f) ==
    [f EXCEPT !.observed_at =
        ObsStr(Replace(IsoFormat(AsTimezoneUtc(f.observed_at.dt)),
                       PlusZero, Zulu))]

\* an OrchestratorEvent
OrchestratorEvent(module, event_type, message, observed_at, details) ==
    [module |-> module, event_type |-> event_type, message |-> message,
     observed_at |-> observed_at, details |-> details]

\* a DiscoveryRunResult
DiscoveryRunResult(ctx, fs, es) ==
    [context |-> ctx, findings |-> fs, events |-> es]

\* datetime.now(timezone.utc), a fixed instant of the sampled month
UtcNow == DateTime(2024, 1, 2, 12, 0, 0, 0, TRUE, 0)

\* ------------------------------------------------------------------------
\* Exceptions
\* ------------------------------------------------------------------------

\* classes derived from Exception, which "except Exception" catches
ExceptionClasses ==
    {"RuntimeError", "TypeError", "ValueError", "AttributeError"}

\* classes derived from BaseException only
BaseOnlyClasses == {"SystemExit"}

NoExc == "none"

\* ------------------------------------------------------------------------
\* Normalization of what execute returned (the body of the try block)
\* ------------------------------------------------------------------------

Normalized(f) == [exc |-> NoExc, finding |-> f]

Fault(cls) == [exc |-> cls, finding |-> NoFinding]

\* a parse that keeps the string when it cannot be parsed
ParseObservedAtLenient(obs) ==
    IF obs.type = "str"
    THEN LET r == FromIsoFormat(Replace(obs.str, Zulu, PlusZero))
         IN  IF r.ok THEN [exc |-> NoExc, obs |-> ObsDateTime(r.dt)]
             ELSE [exc |-> NoExc, obs |-> obs]
    ELSE [exc |-> NoExc, obs |-> obs]

\* lines 258-260 and 265-268: a str observed_at has "Z" replaced by "+00:00"
\* and is parsed; any other value is left alone
ParseObservedAt(obs) ==
    IF obs.type = "str"
    THEN LET r == FromIsoFormat(Replace(obs.str, Zulu, PlusZero))
         IN  IF r.ok THEN [exc |-> NoExc, obs |-> ObsDateTime(r.dt)]
             ELSE [exc |-> "ValueError", obs |-> obs]
    ELSE [exc |-> NoExc, obs |-> obs]

\* DiscoveryFinding(**f_copy): the keywords must be exactly the fields
Construct(d) ==
    IF DOMAIN d = FindingFields
    THEN Normalized(DiscoveryFinding(d.domain, d.category, d.target,
                                     d.evidence, d.confidence, d.observed_at))
    ELSE Fault("TypeError")

\* f_copy after the observed_at key, when present, went through the parse
WithParsed(d) ==
    IF "observed_at" \in DOMAIN d
    THEN [d EXCEPT !.observed_at = ParseObservedAt(d.observed_at).obs]
    ELSE d

ParseFault(d) ==
    IF "observed_at" \in DOMAIN d THEN ParseObservedAt(d.observed_at).exc
    ELSE NoExc

\* a loop turn that builds the finding of an entity from to_dict's mapping
\* as it is, observed_at still a str
NormalizeItemEntityUnparsed(f) ==
    IF f.shape = "entity"
    THEN IF ToDictRaises(f.value) THEN Fault("AttributeError")
         ELSE Construct(ToDict(f.value))
    ELSE IF f.shape = "dict"
    THEN IF ParseFault(f.value) # NoExc THEN Fault(ParseFault(f.value))
         ELSE Construct(WithParsed(f.value))
    ELSE Fault("TypeError")

\* one turn of the loop over module_findings
NormalizeItem(f) ==
    IF f.shape = "entity"
    THEN IF ToDictRaises(f.value) THEN Fault("AttributeError")
         ELSE LET d == ToDict(f.value)
              IN  IF ParseFault(d) # NoExc THEN Fault(ParseFault(d))
                  ELSE Construct(WithParsed(d))
    ELSE IF f.shape = "dict"
    THEN IF ParseFault(f.value) # NoExc THEN Fault(ParseFault(f.value))
         ELSE Construct(WithParsed(f.value))
    ELSE Fault("TypeError")

\* a loop that passes over the elements that fault and keeps the others
RECURSIVE NormalizeAllSkipping(_, _)
NormalizeAllSkipping(elems, normalized) ==
    IF elems = <<>> THEN [exc |-> NoExc, normalized |-> normalized]
    ELSE LET r == NormalizeItem(Head(elems))
         IN  IF r.exc # NoExc THEN NormalizeAllSkipping(Tail(elems), normalized)
             ELSE NormalizeAllSkipping(Tail(elems),
                                       Append(normalized, r.finding))

\* the loop: the list built so far is dropped when an element faults
RECURSIVE NormalizeAll(_, _)
NormalizeAll(elems, normalized) ==
    IF elems = <<>> THEN [exc |-> NoExc, normalized |-> normalized]
    ELSE LET r == NormalizeItem(Head(elems))
         IN  IF r.exc # NoExc THEN [exc |-> r.exc, normalized |-> <<>>]
             ELSE NormalizeAll(Tail(elems), Append(normalized, r.finding))

\* types a for loop can iterate
IterableTypes == {"list", "tuple", "generator", "dict", "str"}

\* lines 250-277: execute, the loop, then the isinstance check on the
\* rebound module_findings, which is always the list built by the loop
TryBlock(m) ==
    IF m.execute.raises # NoExc
    THEN [exc |-> m.execute.raises, normalized |-> <<>>]
    ELSE IF m.execute.type \notin IterableTypes
    THEN [exc |-> "TypeError", normalized |-> <<>>]
    ELSE LET r == NormalizeAll(m.execute.elems, <<>>)
             module_findings == [type |-> "list", elems |-> r.normalized]
         IN  IF r.exc # NoExc THEN r
             ELSE IF module_findings.type # "list"
             THEN [exc |-> "TypeError", normalized |-> <<>>]
             ELSE [exc |-> NoExc, normalized |-> module_findings.elems]

\* ------------------------------------------------------------------------
\* Sampled inputs
\* ------------------------------------------------------------------------

\* the context handed to run, and a second object with equal fields
RunContext == DiscoveryContext(1, "10.0.0.5")

EqualContext == DiscoveryContext(2, "10.0.0.5")

\* stands for a module object that has no context attribute
NoAttribute == DiscoveryContext(0, "")

\* aware timestamps of the sampled month, at the edges of each field
SampleDateTimes ==
    {DateTime(2024, 1, d, h, mi, s, us, TRUE, off) :
        d \in 2..MaxDay, h \in {0, 23}, mi \in {0, 59}, s \in {0, 59},
        us \in {0, 120}, off \in {-300, 0, 330}}

\* 2024-01-02T00:10:00+05:30, which is 2024-01-01T18:40:00 in UTC
OffsetStamp == DateTime(2024, 1, 2, 0, 10, 0, 0, TRUE, 330)

Evidence == [method |-> "tcp_connect"]

\* items a module may put in what it returns
Entity(f) == [shape |-> "entity", value |-> f]

Mapping(d) == [shape |-> "dict", value |-> d]

Other(r) == [shape |-> "other", value |-> [repr |-> r]]

\* the mapping with the fields of f and observed_at given as to_dict gives it
EquivalentMapping(f) == Mapping(ToDict(f))

EntityItem ==
    Entity(DiscoveryFinding("network", "open_port", "10.0.0.5:22", Evidence,
                            85, ObsDateTime(OffsetStamp)))

MappingItem ==
    EquivalentMapping(DiscoveryFinding("identity", "open_port", "10.0.0.5:445",
                                       Evidence, 70, ObsDateTime(OffsetStamp)))

JunkItem == Other("int")

MappingDateTimeItem ==
    Mapping(DiscoveryFinding("identity", "host_presence", "10.0.0.5", Evidence,
                             60, ObsDateTime(OffsetStamp)))

BadStampString == <<"n", "o", "t", "-", "a", "-", "d", "a", "t", "e", "Z">>

MappingBadStampItem ==
    Mapping(DiscoveryFinding("identity", "open_port", "10.0.0.5:389", Evidence,
                             70, ObsStr(BadStampString)))

EntityBadStampItem ==
    Entity(DiscoveryFinding("network", "open_port", "10.0.0.5:80", Evidence,
                            85, ObsStr(BadStampString)))

MappingMissingFieldItem ==
    Mapping([domain |-> "identity", category |-> "open_port",
             target |-> "10.0.0.5:636", evidence |-> Evidence,
             observed_at |-> ObsDateTime(OffsetStamp)])

\* 2024-01-02T08:30:00 without a time zone
NaiveStamp == DateTime(2024, 1, 2, 8, 30, 0, 0, FALSE, 0)

\* a mapping whose observed_at string carries no offset
MappingNaiveStampItem ==
    Mapping(DiscoveryFinding("identity", "host_presence", "10.0.0.5", Evidence,
                             60, ObsStr(IsoFormat(NaiveStamp))))

\* a mapping whose confidence is 7.0
MappingOutOfRangeItem ==
    Mapping(DiscoveryFinding("identity", "open_port", "10.0.0.5:88", Evidence,
                             700, ObsDateTime(OffsetStamp)))

CoreItems == {EntityItem, JunkItem}

RareItems == {MappingItem, MappingDateTimeItem, MappingBadStampItem,
              EntityBadStampItem, MappingMissingFieldItem,
              MappingNaiveStampItem, MappingOutOfRangeItem}

SeqsUpTo(S, n) == UNION {[1..k -> S] : k \in 0..n}

\* what one call of execute does
Returns(type, elems) == [raises |-> NoExc, type |-> type, elems |-> elems]

Raises(cls) == [raises |-> cls, type |-> "NoneType", elems |-> <<>>]

Executions ==
    {Returns("list", e) : e \in SeqsUpTo(CoreItems, MaxItems)}
    \cup {Returns("list", <<x>>) : x \in RareItems}
    \cup {Returns("list", <<EntityItem, x>>) :
             x \in {MappingItem, MappingBadStampItem, MappingMissingFieldItem}}
    \cup {Returns("list", <<MappingItem, EntityItem>>)}
    \cup {Returns("generator", e) : e \in {<<>>, <<EntityItem>>}}
    \cup {Returns("dict", e) : e \in {<<>>, <<Other("str")>>}}
    \cup {Returns("str", e) : e \in {<<>>, <<Other("str")>>}}
    \cup {Returns("NoneType", <<>>), Returns("int", <<>>)}
    \cup {Raises("RuntimeError"), Raises("SystemExit")}

\* the executions sampled for a module bound to another context object
MismatchExecutions ==
    {Returns("list", e) : e \in SeqsUpTo({EntityItem}, MaxItems)}
    \cup {Returns("list", <<EntityItem, JunkItem>>), Returns("NoneType", <<>>),
          Raises("RuntimeError")}

\* a module object
DiscoveryModule(name, ctx, execute) ==
    [name |-> name, context |-> ctx, execute |-> execute]

\* context and execute of the sampled modules; a module without a context
\* attribute is never executed, so one execution stands for all
ModuleChoices ==
    {[context |-> RunContext, execute |-> x] : x \in Executions}
    \cup {[context |-> EqualContext, execute |-> x] : x \in MismatchExecutions}
    \cup {[context |-> NoAttribute, execute |-> Returns("list", <<>>)]}

\* the module lists of length n, each module named after its position
ModuleLists(n) ==
    {[k \in 1..n |-> DiscoveryModule(ToString(k), c[k].context, c[k].execute)] :
        c \in [1..n -> ModuleChoices]}

\* ------------------------------------------------------------------------
\* Output_Reporting: the JSON structure and the Markdown report of a run
\* ------------------------------------------------------------------------

\* utcoffsets, in minutes, of the local time zone of the reporting host
LocalOffsets == {0, 60}

\* astimezone reads a naive datetime as local time
AsLocal(dt, local) ==
    IF dt.aware THEN dt ELSE [dt EXCEPT !.aware = TRUE, !.utcoffset = local]

\* DiscoveryFinding.to_dict on a host whose local utcoffset is local
ToDictLocal(f, local) ==
    ToDict([f EXCEPT !.observed_at.dt = AsLocal(@, local)])

\* OrchestratorEvent.to_dict
EventToDict(e) ==
    [e EXCEPT !.observed_at =
        Replace(IsoFormat(AsTimezoneUtc(e.observed_at)), PlusZero, Zulu)]

\* serialize_run_to_json; of the context only the target is kept
SerializedRun(run, local) ==
    [context |-> [target |-> run.context.target],
     findings |-> [i \in 1..Len(run.findings) |->
                     ToDictLocal(run.findings[i], local)],
     events |-> [i \in 1..Len(run.events) |-> EventToDict(run.events[i])]]

\* a line of the report: its fixed text and the values rendered into it,
\* each with the part of the run it comes from
Field(origin, value) == [origin |-> origin, value |-> value]

Line(text, fields) == [text |-> text, fields |-> fields]

\* evidence.get(key)
Get(evidence, key) ==
    IF key \in DOMAIN evidence THEN evidence[key] ELSE "None"

\* the findings of fs whose category is c, in order
RECURSIVE OfCategory(_, _)
OfCategory(fs, c) ==
    IF fs = <<>> THEN <<>>
    ELSE (IF Head(fs).category = c THEN <<Head(fs)>> ELSE <<>>)
         \o OfCategory(Tail(fs), c)

HeaderLines(run) ==
    <<Line("# Network Discovery Report", <<>>),
      Line("**Target:**", <<Field("context", run.context.target)>>)>>

HostLines(run) ==
    LET host_findings == OfCategory(run.findings, "host_presence")
    IN  <<Line("## Host Reachability", <<>>),
          IF host_findings # <<>>
          THEN Line("- ICMP Echo:",
                    <<Field("finding",
                            Get(host_findings[1].evidence, "reachable"))>>)
          ELSE Line("- Host reachability not assessed", <<>>)>>

ServiceLines(run) ==
    LET open_ports == OfCategory(run.findings, "open_port")
    IN  <<Line("## Exposed Services", <<>>)>>
        \o (IF open_ports = <<>>
            THEN <<Line("- No externally reachable services observed", <<>>)>>
            ELSE <<Line("| Port | Service | Confidence |", <<>>)>>
                 \o [i \in 1..Len(open_ports) |->
                       Line("| port | service | conf |",
                            <<Field("finding", Get(open_ports[i].evidence, "port")),
                              Field("finding",
                                    Get(open_ports[i].evidence, "service_hint")),
                              Field("finding", open_ports[i].confidence)>>)])

NoteLines(run) ==
    <<Line("## Analyst Notes", <<>>),
      IF OfCategory(run.findings, "open_port") # <<>>
      THEN Line("- One or more network services are externally reachable", <<>>)
      ELSE Line("- No network services were observed", <<>>)>>

AppendixLines(run, local) ==
    <<Line("## Appendix: Raw Findings", <<>>)>>
    \o [i \in 1..Len(run.findings) |->
          Line("json", <<Field("finding", ToDictLocal(run.findings[i], local))>>)]

\* generate_markdown_report, line after line
MarkdownLines(run, local) ==
    HeaderLines(run) \o HostLines(run) \o ServiceLines(run) \o NoteLines(run)
    \o AppendixLines(run, local)

\* ------------------------------------------------------------------------
\* State
\* ------------------------------------------------------------------------

VARIABLES
    modules,     \* DiscoveryOrchestrator.modules
    context,     \* the argument of run
    pc,          \* where run is: "check", "try", "returned", "raised", "off"
    index,       \* position of the for loop in modules
    findings,    \* the findings accumulator of run
    events,      \* the events accumulator of run
    result,      \* the DiscoveryRunResult returned, when pc = "returned"
    raised,      \* the exception that left run, when pc = "raised"
    sample,      \* a timestamp under conversion
    step,        \* how far the conversion of sample went
    wire,        \* to_dict's observed_at string for sample
    parsed,      \* what the orchestrator's rule parses from wire
    fromEntity,  \* the try block's outcome for the entity carrying sample
    fromMapping, \* the try block's outcome for the equivalent mapping
    fromValue,   \* the try block's outcome for the mapping holding sample
    eventOut,    \* the to_dict outputs of an event observed at sample
    calls,       \* how many times run was called on the orchestrator
    json,        \* what serialize_run_to_json returned for result
    markdown,    \* what generate_markdown_report returned for result
    earlier,     \* the RunResult of the call before, as the caller left it
    invoked,     \* the positions of the modules whose execute was called
    port_map,    \* NetworkDiscoveryModule.port_map: port -> service hint
    network,     \* what the target answers: to the ping and on each port
    netPc,       \* where NetworkDiscoveryModule.execute is
    queue,       \* the ports the loop of _discover_open_ports has yet to probe
    netFindings  \* the findings list of NetworkDiscoveryModule.execute

runVars == <<modules, context, pc, index, findings, events, result, raised,
            invoked>>

stampVars == <<sample, step, wire, parsed, fromEntity, fromMapping,
              fromValue, eventOut>>

sessionVars == <<calls, json, markdown, earlier>>

netVars == <<port_map, network, netPc, queue, netFindings>>

vars == <<modules, context, pc, index, findings, events, result, raised,
          sample, step, wire, parsed, fromEntity, fromMapping,
          fromValue, eventOut, calls, json, markdown, earlier, invoked,
          port_map, network, netPc, queue, netFindings>>

NoResult == DiscoveryRunResult(NoAttribute, <<>>, <<>>)

NoOutcome == [exc |-> NoExc, normalized |-> <<>>]

NoJson == [made |-> FALSE, value |-> SerializedRun(NoResult, 0)]

NoMarkdown == [made |-> FALSE, lines |-> <<>>]

NoReports == json = NoJson /\ markdown = NoMarkdown

NetIdle ==
    /\ port_map = <<>> /\ network = [ping |-> "reply", connect |-> <<>>]
    /\ netPc = "off" /\ queue = <<>> /\ netFindings = <<>>

StampIdle ==
    /\ sample = NoDateTime /\ step = "off" /\ wire = <<>>
    /\ parsed = ParseError /\ fromEntity = NoOutcome /\ fromMapping = NoOutcome
    /\ fromValue = NoOutcome /\ eventOut = <<>>

Init ==
    /\ \E n \in 0..MaxModules : modules \in ModuleLists(n)
    /\ context = RunContext
    /\ pc = "check"
    /\ index = 1
    /\ findings = <<>>
    /\ events = <<>>
    /\ result = NoResult
    /\ raised = NoExc
    /\ calls = 1
    /\ NoReports
    /\ earlier = NoResult
    /\ invoked = <<>>
    /\ StampIdle
    /\ NetIdle

\* ------------------------------------------------------------------------
\* DiscoveryOrchestrator.run
\* ------------------------------------------------------------------------

ModuleName(m) == m.name

\* a check that records the mismatch and passes over the module
CheckContextSkipping ==
    /\ pc = "check" /\ index <= Len(modules)
    /\ LET module == modules[index]
       IN  IF module.context = NoAttribute
           THEN /\ pc' = "raised" /\ raised' = "AttributeError"
                /\ UNCHANGED <<events, index>>
           ELSE IF module.context.id # context.id
           THEN /\ events' = Append(events,
                       OrchestratorEvent(ModuleName(module),
                         "context_mismatch",
                         "Module context does not match orchestrator run context.",
                         UtcNow,
                         [expected_target |-> context.target,
                          module_target |-> module.context.target]))
                /\ pc' = "check" /\ index' = index + 1
                /\ UNCHANGED raised
           ELSE /\ pc' = "try" /\ UNCHANGED <<events, raised, index>>
    /\ UNCHANGED <<netVars, modules, context, findings, result, invoked, stampVars,
                   sessionVars>>

\* a check that compares the contexts field by field
CheckContextByValue ==
    /\ pc = "check" /\ index <= Len(modules)
    /\ LET module == modules[index]
       IN  IF module.context = NoAttribute
           THEN /\ pc' = "raised" /\ raised' = "AttributeError"
                /\ UNCHANGED events
           ELSE /\ pc' = "try" /\ UNCHANGED raised
                /\ events' =
                     IF module.context.target # context.target
                     THEN Append(events,
                            OrchestratorEvent(ModuleName(module),
                              "context_mismatch",
                              "Module context does not match orchestrator run context.",
                              UtcNow,
                              [expected_target |-> context.target,
                               module_target |-> module.context.target]))
                     ELSE events
    /\ UNCHANGED <<netVars, modules, context, index, findings, result, invoked,
                   stampVars, sessionVars>>

\* lines 234-246: reading module.context faults for a module without the
\* attribute, outside the try; a different object is recorded
CheckContext ==
    /\ pc = "check" /\ index <= Len(modules)
    /\ LET module == modules[index]
       IN  IF module.context = NoAttribute
           THEN /\ pc' = "raised" /\ raised' = "AttributeError"
                /\ UNCHANGED events
           ELSE /\ pc' = "try" /\ UNCHANGED raised
                /\ events' =
                     IF module.context.id # context.id
                     THEN Append(events,
                            OrchestratorEvent(ModuleName(module),
                              "context_mismatch",
                              "Module context does not match orchestrator run context.",
                              UtcNow,
                              [expected_target |-> context.target,
                               module_target |-> module.context.target]))
                     ELSE events
    /\ UNCHANGED <<netVars, modules, context, index, findings, result, invoked,
                   stampVars, sessionVars>>

\* a handler that leaves the loop after recording the error
AggregateBreaking(module, r) ==
    IF r.exc = NoExc
    THEN /\ findings' = findings \o r.normalized
         /\ pc' = "check" /\ index' = index + 1
         /\ UNCHANGED <<events, raised>>
    ELSE IF r.exc \in ExceptionClasses
    THEN /\ events' = Append(events,
               OrchestratorEvent(ModuleName(module), "module_error",
                 r.exc, UtcNow, [exception_type |-> r.exc]))
         /\ pc' = "check" /\ index' = Len(modules) + 1
         /\ UNCHANGED <<findings, raised>>
    ELSE /\ pc' = "raised" /\ raised' = r.exc
         /\ UNCHANGED <<findings, events, index>>

\* an aggregation that puts a module's findings in front of the earlier ones
AggregatePrepending(module, r) ==
    IF r.exc = NoExc
    THEN /\ findings' = r.normalized \o findings
         /\ pc' = "check" /\ index' = index + 1
         /\ UNCHANGED <<events, raised>>
    ELSE IF r.exc \in ExceptionClasses
    THEN /\ events' = Append(events,
               OrchestratorEvent(ModuleName(module), "module_error",
                 r.exc, UtcNow, [exception_type |-> r.exc]))
         /\ pc' = "check" /\ index' = index + 1
         /\ UNCHANGED <<findings, raised>>
    ELSE /\ pc' = "raised" /\ raised' = r.exc
         /\ UNCHANGED <<findings, events, index>>

\* lines 279-296: what the loop body does with the outcome r of the try
\* block: extend the findings, or record the Exception and continue; any
\* other BaseException leaves run
Aggregate(module, r) ==
    IF r.exc = NoExc
    THEN /\ findings' = findings \o r.normalized
         /\ pc' = "check" /\ index' = index + 1
         /\ UNCHANGED <<events, raised>>
    ELSE IF r.exc \in ExceptionClasses
    THEN /\ events' = Append(events,
               OrchestratorEvent(ModuleName(module), "module_error",
                 r.exc, UtcNow, [exception_type |-> r.exc]))
         /\ pc' = "check" /\ index' = index + 1
         /\ UNCHANGED <<findings, raised>>
    ELSE /\ pc' = "raised" /\ raised' = r.exc
         /\ UNCHANGED <<findings, events, index>>

\* lines 248-296: the try block and its handler
ExecuteModule ==
    /\ pc = "try"
    /\ invoked' = Append(invoked, index)
    /\ Aggregate(modules[index], TryBlock(modules[index]))
    /\ UNCHANGED <<netVars, modules, context, result, stampVars, sessionVars>>

\* line 298
Return ==
    /\ pc = "check" /\ index > Len(modules)
    /\ result' = DiscoveryRunResult(context, findings, events)
    /\ pc' = "returned"
    /\ UNCHANGED <<netVars, modules, context, index, findings, events, raised, invoked,
                   stampVars, sessionVars>>

Next == CheckContext \/ ExecuteModule \/ Return

Spec == Init /\ [][Next]_vars

\* ------------------------------------------------------------------------
\* A session: the caller runs the orchestrator again and reports each run
\* ------------------------------------------------------------------------

\* how many times the caller calls run on one orchestrator
MaxCalls == 2

\* context and execute of the modules of a session
SessionChoices ==
    {[context |-> RunContext, execute |-> x] :
        x \in {Returns("list", <<>>), Returns("list", <<EntityItem>>),
               Returns("list", <<MappingItem, EntityItem>>),
               Returns("list", <<EntityItem, JunkItem>>),
               Returns("list", <<MappingNaiveStampItem>>),
               Raises("RuntimeError")}}
    \cup {[context |-> EqualContext, execute |-> x] :
            x \in {Returns("list", <<EntityItem>>), Raises("RuntimeError")}}
    \cup {[context |-> NoAttribute, execute |-> Returns("list", <<>>)]}

SessionLists(n) ==
    {[k \in 1..n |-> DiscoveryModule(ToString(k), c[k].context, c[k].execute)] :
        c \in [1..n -> SessionChoices]}

InitSession ==
    /\ \E n \in 0..MaxModules : modules \in SessionLists(n)
    /\ context = RunContext
    /\ pc = "check"
    /\ index = 1
    /\ findings = <<>>
    /\ events = <<>>
    /\ result = NoResult
    /\ raised = NoExc
    /\ calls = 1
    /\ NoReports
    /\ earlier = NoResult
    /\ invoked = <<>>
    /\ StampIdle
    /\ NetIdle

\* a finding the caller appends to a RunResult it was given
CallerFinding ==
    DiscoveryFinding("caller", "note", "10.0.0.5", Evidence, 100,
                     ObsDateTime(UtcNow))

\* the caller appends to result.findings and clears result.events: these
\* are the list objects the finished call accumulated into
MutateResult ==
    /\ pc = "returned" /\ calls < MaxCalls /\ NoReports
    /\ \A i \in 1..Len(result.findings) : result.findings[i] # CallerFinding
    /\ findings' = Append(findings, CallerFinding)
    /\ events' = <<>>
    /\ result' = [result EXCEPT !.findings = Append(findings, CallerFinding),
                                !.events = <<>>]
    /\ UNCHANGED <<netVars, modules, context, pc, index, raised, invoked, calls, json,
                   markdown, earlier, stampVars>>

\* a call that goes on with the lists of the call before
RunAgainKeeping ==
    /\ pc \in {"returned", "raised"} /\ calls < MaxCalls
    /\ calls' = calls + 1
    /\ context' \in {RunContext, EqualContext}
    /\ index' = 1
    /\ pc' = "check"
    /\ raised' = NoExc
    /\ invoked' = <<>>
    /\ earlier' = result
    /\ json' = NoJson /\ markdown' = NoMarkdown
    /\ UNCHANGED <<netVars, modules, findings, events, result, stampVars>>

\* lines 218-228: another call of run on the same orchestrator, after the
\* call before returned or raised, with the same context object or another
\* one and with new empty lists; the caller keeps the RunResult it holds and
\* puts its reports aside
RunAgain ==
    /\ pc \in {"returned", "raised"} /\ calls < MaxCalls
    /\ calls' = calls + 1
    /\ context' \in {RunContext, EqualContext}
    /\ findings' = <<>>
    /\ events' = <<>>
    /\ index' = 1
    /\ pc' = "check"
    /\ raised' = NoExc
    /\ invoked' = <<>>
    /\ earlier' = result
    /\ json' = NoJson /\ markdown' = NoMarkdown
    /\ UNCHANGED <<netVars, modules, result, stampVars>>

\* serialize_run_to_json(result)
SerializeRunToJson ==
    /\ pc = "returned" /\ ~json.made
    /\ \E local \in LocalOffsets :
          json' = [made |-> TRUE, value |-> SerializedRun(result, local)]
    /\ UNCHANGED <<netVars, runVars, stampVars, calls, markdown, earlier>>

\* generate_markdown_report(result)
GenerateMarkdownReport ==
    /\ pc = "returned" /\ ~markdown.made
    /\ \E local \in LocalOffsets :
          markdown' = [made |-> TRUE, lines |-> MarkdownLines(result, local)]
    /\ UNCHANGED <<netVars, runVars, stampVars, calls, json, earlier>>

NextSession ==
    \/ CheckContext \/ ExecuteModule \/ Return
    \/ RunAgain \/ MutateResult
    \/ SerializeRunToJson \/ GenerateMarkdownReport

SpecSession == InitSession /\ [][NextSession]_vars

\* ------------------------------------------------------------------------
\* The timestamp wire format, applied to sampled timestamps
\* ------------------------------------------------------------------------

SampleFinding(dt) ==
    DiscoveryFinding("network", "open_port", "10.0.0.5:22", Evidence, 85,
                     ObsDateTime(dt))

RunIdle ==
    /\ modules = <<>> /\ context = RunContext /\ pc = "off" /\ index = 1
    /\ findings = <<>> /\ events = <<>> /\ result = NoResult /\ raised = NoExc
    /\ calls = 0 /\ NoReports /\ earlier = NoResult /\ invoked = <<>>

InitStamp ==
    /\ sample \in SampleDateTimes
    /\ step = "start"
    /\ wire = <<>>
    /\ parsed = ParseError
    /\ fromEntity = NoOutcome
    /\ fromMapping = NoOutcome
    /\ fromValue = NoOutcome
    /\ eventOut = <<>>
    /\ RunIdle
    /\ NetIdle

\* DiscoveryFinding.to_dict on a finding observed at sample
Serialize ==
    /\ step = "start"
    /\ wire' = ToDict(SampleFinding(sample)).observed_at.str
    /\ step' = "serialized"
    /\ UNCHANGED <<netVars, sample, parsed, fromEntity, fromMapping, fromValue, eventOut,
                   runVars, sessionVars>>

\* lines 259-260 on the serialized string
Reparse ==
    /\ step = "serialized"
    /\ parsed' = FromIsoFormat(Replace(wire, Zulu, PlusZero))
    /\ step' = "parsed"
    /\ UNCHANGED <<netVars, sample, wire, fromEntity, fromMapping, fromValue, eventOut,
                   runVars, sessionVars>>

\* the try block on a module returning the finding and a second one as
\* entities
NormalizeEntity ==
    /\ step = "parsed"
    /\ fromEntity' =
         TryBlock(DiscoveryModule("entities", RunContext,
                    Returns("list",
                      <<Entity(SampleFinding(sample)), EntityItem>>)))
    /\ step' = "entity"
    /\ UNCHANGED <<netVars, sample, wire, parsed, fromMapping, fromValue, eventOut,
                   runVars, sessionVars>>

\* the try block on a module returning the same two findings as mappings
\* whose observed_at is the serialized string
NormalizeMapping ==
    /\ step = "entity"
    /\ fromMapping' =
         TryBlock(DiscoveryModule("mappings", RunContext,
                    Returns("list",
                      <<Mapping([SampleFinding(sample) EXCEPT
                                   !.observed_at = ObsStr(wire)]),
                        EquivalentMapping(EntityItem.value)>>)))
    /\ step' = "done"
    /\ UNCHANGED <<netVars, sample, wire, parsed, fromEntity, fromValue, eventOut,
                   runVars, sessionVars>>

\* the try block on a module returning the finding as a mapping whose
\* observed_at is the datetime itself
NormalizeValue ==
    /\ step # "off" /\ fromValue = NoOutcome
    /\ fromValue' =
         TryBlock(DiscoveryModule("values", RunContext,
                    Returns("list", <<Mapping(SampleFinding(sample))>>)))
    /\ UNCHANGED <<netVars, sample, step, wire, parsed, fromEntity, fromMapping,
                   eventOut, runVars, sessionVars>>

SampleEvent(dt) ==
    OrchestratorEvent("network", "module_error", "RuntimeError", dt,
                      [exception_type |-> "RuntimeError"])

\* OrchestratorEvent.to_dict on an event observed at sample
SerializeEvent ==
    /\ step # "off" /\ eventOut = <<>>
    /\ eventOut' = <<EventToDict(SampleEvent(sample))>>
    /\ UNCHANGED <<netVars, sample, step, wire, parsed, fromEntity, fromMapping,
                   fromValue, runVars, sessionVars>>

NextStamp ==
    \/ Serialize \/ Reparse \/ NormalizeEntity \/ NormalizeMapping
    \/ NormalizeValue \/ SerializeEvent

SpecStamp == InitStamp /\ [][NextStamp]_vars

\* ------------------------------------------------------------------------
\* NetworkDiscoveryModule.execute
\* ------------------------------------------------------------------------

\* three ports of default_port_map with their service hints
SamplePorts == {22, 80, 443}

ServiceHint(port) ==
    IF port = 22 THEN "SSH" ELSE IF port = 80 THEN "HTTP" ELSE "HTTPS"

PortMaps == {[p \in S |-> ServiceHint(p)] : S \in SUBSET SamplePorts}

\* what subprocess.run of ping does: return code 0, another return code, or
\* an exception (no ping program)
PingOutcomes == {"reply", "no reply", "FileNotFoundError"}

\* what socket.create_connection does: it connects, or raises socket.timeout,
\* an OSError (refused, unreachable), or another Exception
OSErrorClasses == {"ConnectionRefusedError", "OSError"}

ConnectOutcomes == {"connected", "timeout", "OverflowError"} \cup OSErrorClasses

Networks(ports) ==
    [ping : PingOutcomes, connect : [ports -> ConnectOutcomes]]

\* sorted(S) for a set of integers
RECURSIVE Sorted(_)
Sorted(S) ==
    IF S = {} THEN <<>>
    ELSE LET least == CHOOSE x \in S : \A y \in S : x <= y
         IN  <<least>> \o Sorted(S \ {least})

\* _tcp_connect_probe: the pair (open_state, error)
TcpConnectProbe(outcome) ==
    IF outcome = "connected" THEN [open_state |-> TRUE, error |-> "None"]
    ELSE IF outcome = "timeout" THEN [open_state |-> FALSE, error |-> "timeout"]
    ELSE IF outcome \in OSErrorClasses
    THEN [open_state |-> FALSE, error |-> outcome]
    ELSE [open_state |-> FALSE, error |-> outcome]

\* _discover_host_presence: always one finding
HostPresence(target, ping) ==
    IF ping \notin {"reply", "no reply"}
    THEN <<DiscoveryFinding("network", "host_presence", target,
                            [method |-> "icmp_echo_ping", reachable |-> FALSE,
                             error |-> ping],
                            40, ObsDateTime(UtcNow))>>
    ELSE <<DiscoveryFinding("network", "host_presence", target,
                            [method |-> "icmp_echo_ping",
                             reachable |-> (ping = "reply")],
                            IF ping = "reply" THEN 90 ELSE 60,
                            ObsDateTime(UtcNow))>>

\* the body of the loop of _discover_open_ports for one port, r being what
\* the probe returned
PortFindings(target, port, hint, r) ==
    IF r.open_state
    THEN <<DiscoveryFinding("network", "open_port",
                            target \o ":" \o ToString(port),
                            [method |-> "tcp_connect", port |-> port,
                             service_hint |-> hint],
                            85, ObsDateTime(UtcNow))>>
    ELSE IF r.error # "None" /\ r.error # "timeout"
    THEN <<DiscoveryFinding("network", "port_probe_error",
                            target \o ":" \o ToString(port),
                            [method |-> "tcp_connect", port |-> port,
                             service_hint |-> hint, error |-> r.error],
                            50, ObsDateTime(UtcNow))>>
    ELSE <<>>

InitNetwork ==
    /\ port_map \in PortMaps
    /\ network \in Networks(DOMAIN port_map)
    /\ netPc = "host"
    /\ queue = <<>>
    /\ netFindings = <<>>
    /\ RunIdle
    /\ StampIdle

\* execute, first step: findings.extend(self._discover_host_presence());
\* then the loop over sorted(self.port_map.keys()) starts
DiscoverHostPresence ==
    /\ netPc = "host"
    /\ netFindings' = netFindings \o HostPresence(RunContext.target, network.ping)
    /\ queue' = Sorted(DOMAIN port_map)
    /\ netPc' = "ports"
    /\ UNCHANGED <<port_map, network, runVars, stampVars, sessionVars>>

\* one turn of the loop of _discover_open_ports
ProbePort ==
    /\ netPc = "ports" /\ queue # <<>>
    /\ netFindings' =
         netFindings \o PortFindings(RunContext.target, Head(queue),
                                     port_map[Head(queue)],
                                     TcpConnectProbe(network.connect[Head(queue)]))
    /\ queue' = Tail(queue)
    /\ UNCHANGED <<port_map, network, netPc, runVars, stampVars, sessionVars>>

\* execute returns findings
ReturnFindings ==
    /\ netPc = "ports" /\ queue = <<>>
    /\ netPc' = "returned"
    /\ UNCHANGED <<port_map, network, queue, netFindings, runVars, stampVars,
                   sessionVars>>

NextNetwork == DiscoverHostPresence \/ ProbePort \/ ReturnFindings

SpecNetwork == InitNetwork /\ [][NextNetwork]_vars

\* ------------------------------------------------------------------------
\* Vocabulary of the properties
\* ------------------------------------------------------------------------

HasEvent(es, name, type) ==
    \E i \in 1..Len(es) : es[i].module = name /\ es[i].event_type = type

CountEvents(es, name, type) ==
    Cardinality({i \in 1..Len(es) :
                   es[i].module = name /\ es[i].event_type = type})

\* the list without its k-th module
Without(ms, k) == SubSeq(ms, 1, k - 1) \o SubSeq(ms, k + 1, Len(ms))

\* the findings a run over ms aggregates, module by module
RECURSIVE RunFindings(_)
RunFindings(ms) ==
    IF ms = <<>> THEN <<>>
    ELSE (LET r == TryBlock(Head(ms))
          IN  IF r.exc = NoExc THEN r.normalized ELSE <<>>)
         \o RunFindings(Tail(ms))

\* what identifies a finding whatever the shape it was emitted in
Key(v) == <<v.domain, v.category, v.target, v.evidence, v.confidence>>

KeysOf(fs) == [i \in 1..Len(fs) |-> Key(fs[i])]

EmittedKeys(m) ==
    [i \in 1..Len(m.execute.elems) |-> Key(m.execute.elems[i].value)]

\* the keys emitted by the modules of ms for which es holds no module_error
RECURSIVE EmittedBy(_, _)
EmittedBy(ms, es) ==
    IF ms = <<>> THEN <<>>
    ELSE (IF HasEvent(es, Head(ms).name, "module_error") THEN <<>>
          ELSE EmittedKeys(Head(ms)))
         \o EmittedBy(Tail(ms), es)

Position(name) == CHOOSE k \in 1..Len(modules) : modules[k].name = name

Mismatched(m) == m.context.id # context.id

\* the loop is past the context check of the k-th module
Checked(k) == k < index \/ (k = index /\ pc = "try")

\* ------------------------------------------------------------------------
\* Properties of DiscoveryOrchestrator.run
\* ------------------------------------------------------------------------

\* C1: isolation.  In the returned RunResult, every module whose execute
\* raised has a module_error event under its name, and the findings are
\* exactly those of a run over the list without that module; with two
\* modules bound to the run context, the first raising and the second
\* returning one finding, there is one finding and one event.
C1_Isolation ==
    pc = "returned" =>
       /\ \A k \in 1..Len(modules) :
             modules[k].execute.raises # NoExc =>
                /\ HasEvent(result.events, modules[k].name, "module_error")
                /\ result.findings = RunFindings(Without(modules, k))
       /\ ( /\ Len(modules) = 2
            /\ modules[1].context = RunContext
            /\ modules[2].context = RunContext
            /\ modules[1].execute.raises # NoExc
            /\ modules[2].execute = Returns("list", <<EntityItem>>) )
          => Len(result.findings) = 1 /\ Len(result.events) = 1

C1_Witness ==
    /\ pc = "returned"
    /\ Len(modules) = 2
    /\ modules[1].execute = Raises("RuntimeError")
    /\ modules[2].execute = Returns("list", <<EntityItem>>)
    /\ Len(result.findings) = 1
    /\ HasEvent(result.events, modules[1].name, "module_error")

\* C2: run never ends by raising; what it returns carries the context it
\* was given, and nothing else for an empty module list.
C2_AlwaysReturns ==
    /\ pc # "raised"
    /\ pc = "returned" =>
          /\ result.context.id = context.id
          /\ modules = <<>> => result.findings = <<>> /\ result.events = <<>>

\* C3: a module bound to another context object, even an equal one, gets
\* exactly one context_mismatch event, recorded while none of its findings
\* is aggregated yet; it is executed all the same and what it emits is in
\* the RunResult.  A module bound to the run context gets no such event.
C3_MismatchRecorded ==
    /\ \A k \in 1..Len(modules) :
          Checked(k) =>
             CountEvents(events, modules[k].name, "context_mismatch")
                = (IF Mismatched(modules[k]) THEN 1 ELSE 0)
    /\ pc = "try" =>
          KeysOf(findings) = EmittedBy(SubSeq(modules, 1, index - 1), events)
    /\ pc = "returned" =>
          \A k \in 1..Len(modules) :
             ( /\ Mismatched(modules[k])
               /\ ~HasEvent(result.events, modules[k].name, "module_error") )
             => LET before ==
                      Len(EmittedBy(SubSeq(modules, 1, k - 1), result.events))
                    mine == EmittedKeys(modules[k])
                IN  /\ Len(result.findings) >= before + Len(mine)
                    /\ SubSeq(KeysOf(result.findings), before + 1,
                              before + Len(mine)) = mine

C3_Witness ==
    /\ pc = "returned"
    /\ Len(modules) = 2
    /\ modules[2].context = EqualContext
    /\ modules[2].context.target = context.target
    /\ modules[1].execute = Returns("list", <<MappingItem>>)
    /\ modules[2].execute = Returns("list", <<EntityItem, EntityItem>>)
    /\ CountEvents(result.events, modules[2].name, "context_mismatch") = 1
    /\ Len(result.findings) = 3

\* C4: ordering.  The findings of a RunResult are, module after module in
\* list order, what each module without a module_error emitted, in the order
\* it emitted them; the events are in module-list order too.
C4_Ordering ==
    pc = "returned" =>
       /\ KeysOf(result.findings) = EmittedBy(modules, result.events)
       /\ \A a, b \in 1..Len(result.events) :
             a < b => Position(result.events[a].module)
                        <= Position(result.events[b].module)

C4_Witness ==
    /\ pc = "returned"
    /\ Len(modules) = 2
    /\ modules[1].execute = Returns("list", <<MappingItem, EntityItem>>)
    /\ modules[2].execute = Returns("list", <<EntityItem>>)
    /\ KeysOf(result.findings)
         = <<Key(MappingItem.value), Key(EntityItem.value),
             Key(EntityItem.value)>>

\* ------------------------------------------------------------------------
\* Properties of the normalization and of the wire format
\* ------------------------------------------------------------------------

\* seconds of the instant a timestamp denotes, counted inside one month
InstantSeconds(dt) ==
    ((dt.day * 24 + dt.hour) * 60 + dt.minute - dt.utcoffset) * 60 + dt.second

Serializable(fs) == \A i \in 1..Len(fs) : ~ToDictRaises(fs[i])

SerializedList(fs) == [i \in 1..Len(fs) |-> ToDict(fs[i])]

\* C5: shape-agnostic normalization.  A module returning findings as
\* entities and one returning the equivalent mappings, observed_at given as
\* the Z-suffixed string, both normalize without fault to findings that
\* serialize to the same output, element by element.
C5_ShapeAgnostic ==
    step = "done" =>
       /\ fromEntity.exc = NoExc /\ fromMapping.exc = NoExc
       /\ Len(fromEntity.normalized) = 2 /\ Len(fromMapping.normalized) = 2
       /\ Serializable(fromEntity.normalized)
       /\ Serializable(fromMapping.normalized)
       /\ SerializedList(fromEntity.normalized)
            = SerializedList(fromMapping.normalized)

C5_Witness ==
    /\ step = "done"
    /\ sample.utcoffset = 330 /\ sample.hour = 0 /\ sample.microsecond # 0
    /\ Len(fromMapping.normalized) = 2
    /\ wire[Len(wire)] = "Z"
    /\ ToDict(fromMapping.normalized[1]).observed_at.str = wire
    /\ ToDict(fromEntity.normalized[1]).observed_at.str = wire

\* C6: timestamp round trip.  The string to_dict gives for observed_at,
\* parsed back with "Z" replaced by "+00:00", is an aware timestamp of the
\* same instant, to the second.
C6_RoundTrip ==
    step \in {"parsed", "entity", "done"} =>
       /\ parsed.ok
       /\ parsed.dt.aware
       /\ parsed.dt.year = sample.year /\ parsed.dt.month = sample.month
       /\ InstantSeconds(parsed.dt) = InstantSeconds(sample)

C6_Witness ==
    /\ step = "parsed"
    /\ sample.utcoffset = -300 /\ sample.hour = 23 /\ sample.second = 59
    /\ parsed.ok
    /\ parsed.dt.day = sample.day + 1 /\ parsed.dt.hour = 4
    /\ parsed.dt.utcoffset = 0

\* an element the loop cannot turn into a finding
WellShaped(item) ==
    \/ item.shape = "entity" /\ item.value.observed_at.type = "datetime"
    \/ /\ item.shape = "dict"
       /\ DOMAIN item.value = FindingFields
       /\ \/ item.value.observed_at.type = "datetime"
          \/ FromIsoFormat(Replace(item.value.observed_at.str,
                                   Zulu, PlusZero)).ok

HasBadElement(m) ==
    /\ m.execute.raises = NoExc
    /\ m.execute.type \in IterableTypes
    /\ \E i \in 1..Len(m.execute.elems) : ~WellShaped(m.execute.elems[i])

\* C7: no partial aggregation.  The step of a module whose returned sequence
\* holds an element that is not a finding leaves the findings as they were,
\* appends one module_error event under the module's name and moves on to
\* the next module.
C7_NoPartialAggregation ==
    [][(pc = "try" /\ HasBadElement(modules[index])) =>
          /\ findings' = findings
          /\ Len(events') = Len(events) + 1
          /\ events'[Len(events')].module = modules[index].name
          /\ events'[Len(events')].event_type = "module_error"
          /\ SubSeq(events', 1, Len(events)) = events
          /\ pc' = "check" /\ index' = index + 1]_vars

C7_Witness ==
    /\ pc = "returned"
    /\ Len(modules) = 2
    /\ modules[1].execute = Returns("list", <<EntityItem, JunkItem>>)
    /\ modules[2].execute = Returns("list", <<EntityItem>>)
    /\ Len(result.findings) = 1
    /\ HasEvent(result.events, modules[1].name, "module_error")

\* C8: a value returned by execute that is not a list (None, a number, a
\* mapping, a string, a one-shot iterator) gets a module_error event and
\* adds no findings.
C8_NonListRejected ==
    pc = "returned" =>
       \A k \in 1..Len(modules) :
          (modules[k].execute.raises = NoExc /\ modules[k].execute.type # "list")
          => /\ HasEvent(result.events, modules[k].name, "module_error")
             /\ result.findings = RunFindings(Without(modules, k))

\* C9: a fault of the context check of a module is recorded as one
\* module_error event for that module and the run goes on to the next one.
C9_CheckFaultContained ==
    /\ ~(pc = "raised" /\ modules[index].context = NoAttribute)
    /\ \A k \in 1..Len(modules) :
          (k < index /\ modules[k].context = NoAttribute)
          => CountEvents(events, modules[k].name, "module_error") = 1

Unparseable(obs) ==
    obs.type = "str" /\ ~FromIsoFormat(Replace(obs.str, Zulu, PlusZero)).ok

EmitsBadStamp(m) ==
    /\ m.execute.raises = NoExc
    /\ m.execute.type \in IterableTypes
    /\ \E i \in 1..Len(m.execute.elems) :
          /\ m.execute.elems[i].shape \in {"entity", "dict"}
          /\ "observed_at" \in DOMAIN m.execute.elems[i].value
          /\ Unparseable(m.execute.elems[i].value.observed_at)

\* C10: a module emitting a finding, entity or mapping, whose observed_at
\* is a string that does not parse gets one event, of the same type
\* module_error as any other fault, adds no findings, and the modules after
\* it still run and add theirs.
C10_BadStampIsModuleError ==
    pc = "returned" =>
       \A k \in 1..Len(modules) :
          EmitsBadStamp(modules[k]) =>
             /\ CountEvents(result.events, modules[k].name, "module_error") = 1
             /\ \A i \in 1..Len(result.events) :
                   result.events[i].module = modules[k].name =>
                      result.events[i].event_type
                         \in {"module_error", "context_mismatch"}
             /\ KeysOf(result.findings)
                  = EmittedBy(Without(modules, k), result.events)

C10_Witness ==
    /\ pc = "returned"
    /\ Len(modules) = 2
    /\ modules[1].execute = Returns("list", <<EntityItem, MappingBadStampItem>>)
    /\ modules[2].execute = Returns("list", <<MappingItem>>)
    /\ result.events[1].details.exception_type = "ValueError"
    /\ KeysOf(result.findings) = <<Key(MappingItem.value)>>

\* the invariant of a finding: confidence between 0.0 and 1.0 (hundredths
\* here) and an aware timestamp
FindingInvariant(f) ==
    /\ f.confidence \in 0..100
    /\ f.observed_at.type = "datetime"
    /\ f.observed_at.dt.aware

\* C11: every finding of a returned RunResult has a confidence between 0
\* and 1 and an aware observed_at, whatever the modules emitted; a finding
\* outside the invariant is never aggregated.
C11_FindingInvariant ==
    pc = "returned" =>
       \A i \in 1..Len(result.findings) : FindingInvariant(result.findings[i])

EndsWith(s, suffix) ==
    /\ Len(s) >= Len(suffix)
    /\ SubSeq(s, Len(s) - Len(suffix) + 1, Len(s)) = suffix

\* s is "YYYY-MM-DDTHH:MM:SS[.ffffff]Z" and reads, field by field, as the
\* UTC wall-clock time of the instant of dt
IsZuluOf(s, dt) ==
    /\ EndsWith(s, Zulu) /\ ~EndsWith(s, PlusZero)
    /\ \A i \in 1..Len(s) : s[i] # "+"
    /\ Len(s) = (IF dt.microsecond = 0 THEN 20 ELSE 27)
    /\ NumVal(SubSeq(s, 1, 4)) = dt.year /\ NumVal(SubSeq(s, 6, 7)) = dt.month
    /\ ((NumVal(SubSeq(s, 9, 10)) * 24 + NumVal(SubSeq(s, 12, 13))) * 60
          + NumVal(SubSeq(s, 15, 16))) * 60 + NumVal(SubSeq(s, 18, 19))
         = InstantSeconds(dt)
    /\ NumVal(SubSeq(s, 12, 13)) < 24 /\ NumVal(SubSeq(s, 15, 16)) < 60
    /\ dt.microsecond # 0 => NumVal(SubSeq(s, 21, 26)) = dt.microsecond

\* C13: to_dict of a finding and of an event, whatever the UTC offset of
\* observed_at, gives observed_at as the ISO string of the same instant in
\* UTC ending in "Z", never "+00:00", and every other field as it was.
C13_ZuluSuffix ==
    /\ step \in {"serialized", "parsed", "entity", "done"} =>
          /\ IsZuluOf(wire, sample)
          /\ \A k \in FindingFields \ {"observed_at"} :
                ToDict(SampleFinding(sample))[k] = SampleFinding(sample)[k]
          /\ ToDict(SampleFinding(sample)).observed_at.str = wire
    /\ \A i \in 1..Len(eventOut) :
          /\ IsZuluOf(eventOut[i].observed_at, sample)
          /\ \A k \in {"module", "event_type", "message", "details"} :
                eventOut[i][k] = SampleEvent(sample)[k]

C13_Witness ==
    /\ step = "serialized"
    /\ sample.utcoffset = 330 /\ sample.hour = 0 /\ sample.microsecond = 120
    /\ wire[Len(wire)] = "Z" /\ Len(wire) = 27
    /\ Len(eventOut) = 1
    /\ eventOut[1].observed_at = wire

\* C16: a finding emitted with a timestamp value as observed_at is
\* aggregated with that very timestamp (instant, UTC offset, microseconds),
\* emitted as an entity or as a mapping.
C16_StampUnchanged ==
    /\ step \in {"entity", "done"} =>
          /\ fromEntity.exc = NoExc
          /\ fromEntity.normalized[1].observed_at = ObsDateTime(sample)
    /\ fromValue # NoOutcome =>
          /\ fromValue.exc = NoExc
          /\ fromValue.normalized[1].observed_at = ObsDateTime(sample)

\* C16, amended: a mapping's aware timestamp value is aggregated unchanged;
\* an entity's is aggregated as the same instant with the same microseconds
\* expressed in UTC, so with its own offset only when that was zero.
C16_InstantKept ==
    /\ step \in {"entity", "done"} =>
          /\ fromEntity.exc = NoExc
          /\ Len(fromEntity.normalized) = 2
          /\ LET dt == fromEntity.normalized[1].observed_at.dt
             IN  /\ fromEntity.normalized[1].observed_at.type = "datetime"
                 /\ dt.aware /\ dt.utcoffset = 0
                 /\ dt.year = sample.year /\ dt.month = sample.month
                 /\ InstantSeconds(dt) = InstantSeconds(sample)
                 /\ dt.microsecond = sample.microsecond
                 /\ sample.utcoffset = 0 => dt = sample
    /\ fromValue # NoOutcome =>
          /\ fromValue.exc = NoExc
          /\ Len(fromValue.normalized) = 1
          /\ fromValue.normalized[1].observed_at = ObsDateTime(sample)

C16_Witness ==
    /\ step = "done"
    /\ sample.utcoffset = 330 /\ sample.hour = 0 /\ sample.microsecond = 120
    /\ fromValue # NoOutcome
    /\ fromValue.normalized[1].observed_at.dt.utcoffset = 330
    /\ fromEntity.normalized[1].observed_at.dt.utcoffset = 0
    /\ fromEntity.normalized[1].observed_at.dt.day = sample.day - 1
    /\ fromEntity.normalized[1].observed_at.dt.microsecond = 120

\* C17: in every run the execute of each module is called exactly once, in
\* list order, one module being done with before the next starts, whatever
\* happened to the modules before it.
C17_EachInvokedOnce ==
    /\ invoked = [i \in 1..Len(invoked) |-> i]
    /\ pc \in {"check", "try"} => Len(invoked) = index - 1
    /\ pc \in {"returned", "raised"} => Len(invoked) = Len(modules)

\* ------------------------------------------------------------------------
\* Properties of the reports and of repeated runs
\* ------------------------------------------------------------------------

\* the report has a line rendering the event e
InMarkdown(lines, e) ==
    \E l \in 1..Len(lines) : \E k \in 1..Len(lines[l].fields) :
       /\ lines[l].fields[k].origin = "event"
       /\ lines[l].fields[k].value.module = e.module
       /\ lines[l].fields[k].value.event_type = e.event_type

\* C12: reporting never drops events.  The JSON structure and the Markdown
\* report made from a RunResult both show every event of it, apart from the
\* findings.
C12_EventsSurfaced ==
    /\ json.made =>
          /\ Len(json.value.events) = Len(result.events)
          /\ \A i \in 1..Len(result.events) :
                /\ json.value.events[i].module = result.events[i].module
                /\ json.value.events[i].event_type = result.events[i].event_type
          /\ Len(json.value.findings) = Len(result.findings)
    /\ markdown.made =>
          \A i \in 1..Len(result.events) :
             InMarkdown(markdown.lines, result.events[i])

\* execute raised an Exception, or what it returned cannot be iterated, or
\* an element of it cannot be turned into a finding
Faulted(m) ==
    \/ m.execute.raises \in ExceptionClasses
    \/ m.execute.raises = NoExc /\ m.execute.type \notin IterableTypes
    \/ HasBadElement(m)

\* module name and type of the events a run over ms with context ctx
\* records, module after module
RECURSIVE EventShape(_, _)
EventShape(ms, ctx) ==
    IF ms = <<>> THEN <<>>
    ELSE (IF Head(ms).context.id # ctx.id
          THEN <<[module |-> Head(ms).name, event_type |-> "context_mismatch"]>>
          ELSE <<>>)
         \o (IF Faulted(Head(ms))
             THEN <<[module |-> Head(ms).name, event_type |-> "module_error"]>>
             ELSE <<>>)
         \o EventShape(Tail(ms), ctx)

ShapeOf(es) ==
    [i \in 1..Len(es) |->
       [module |-> es[i].module, event_type |-> es[i].event_type]]

\* the keys emitted by the modules of ms that do not fault
RECURSIVE KeysUnlessFaulted(_)
KeysUnlessFaulted(ms) ==
    IF ms = <<>> THEN <<>>
    ELSE (IF Faulted(Head(ms)) THEN <<>> ELSE EmittedKeys(Head(ms)))
         \o KeysUnlessFaulted(Tail(ms))

\* C14: the orchestrator keeps nothing between calls of run.  Every call
\* starts with empty accumulators, no step changes the module list, and the
\* RunResult of every call, the first or a later one, holds what one run
\* over the modules with that call's context gives, whatever the caller did
\* to the RunResult of the call before.
C14_Stateless ==
    [][/\ modules' = modules
       /\ (pc \in {"returned", "raised"} /\ pc' = "check") =>
             findings' = <<>> /\ events' = <<>>
       /\ (pc = "check" /\ pc' = "returned") =>
             /\ result'.findings = RunFindings(modules)
             /\ ShapeOf(result'.events) = EventShape(modules, context)
             /\ result'.context = context]_vars

C14_Witness ==
    /\ pc = "returned" /\ calls = 2
    /\ \E i \in 1..Len(earlier.findings) : earlier.findings[i] = CallerFinding
    /\ earlier.events = <<>>
    /\ Len(modules) = 2
    /\ Faulted(modules[1])
    /\ result.findings = RunFindings(modules)
    /\ Len(result.findings) = 2
    /\ Len(result.events) = 1

\* C15: the events of a RunResult are, module after module, one
\* context_mismatch event exactly when the module is bound to another
\* context object, then one module_error event exactly when its execute or
\* the normalization of what it returned faulted, and nothing else; so at
\* most two events per module, of these two types, the mismatch right
\* before the error, and no finding from a module with a module_error.
C15_EventShape ==
    pc = "returned" =>
       /\ ShapeOf(result.events) = EventShape(modules, context)
       /\ \A i \in 1..Len(result.events) :
             result.events[i].event_type \in {"context_mismatch", "module_error"}
       /\ \A k \in 1..Len(modules) :
             /\ Cardinality({i \in 1..Len(result.events) :
                               result.events[i].module = modules[k].name}) <= 2
             /\ (Mismatched(modules[k]) /\ Faulted(modules[k])) =>
                   \E i \in 1..(Len(result.events) - 1) :
                      /\ ShapeOf(result.events)[i]
                           = [module |-> modules[k].name,
                              event_type |-> "context_mismatch"]
                      /\ ShapeOf(result.events)[i + 1]
                           = [module |-> modules[k].name,
                              event_type |-> "module_error"]
       /\ KeysOf(result.findings) = KeysUnlessFaulted(modules)

C15_Witness ==
    /\ pc = "returned"
    /\ Len(modules) = 2
    /\ modules[1].context = EqualContext
    /\ modules[1].execute = Raises("RuntimeError")
    /\ modules[2].execute = Returns("list", <<EntityItem>>)
    /\ ShapeOf(result.events)
         = <<[module |-> "1", event_type |-> "context_mismatch"],
             [module |-> "1", event_type |-> "module_error"]>>
    /\ Len(result.findings) = 1

\* ------------------------------------------------------------------------
\* Properties of NetworkDiscoveryModule.execute
\* ------------------------------------------------------------------------

\* the categories of the findings about the port, in order
RECURSIVE AboutPort(_, _)
AboutPort(fs, port) ==
    IF fs = <<>> THEN <<>>
    ELSE (IF "port" \in DOMAIN Head(fs).evidence /\ Head(fs).evidence.port = port
          THEN <<Head(fs).category>> ELSE <<>>)
         \o AboutPort(Tail(fs), port)

\* C18: execute of the network module does not raise; it returns one
\* host_presence finding, first, then findings about the ports in ascending
\* order, at most one per port: open_port for a port that connects, nothing
\* for a port that refuses the connection or times out, port_probe_error
\* for any other probe error.
C18_PortFindings ==
    /\ netPc # "raised"
    /\ netPc = "returned" =>
          /\ Len(netFindings) >= 1
          /\ netFindings[1].category = "host_presence"
          /\ \A i \in 2..Len(netFindings) :
                netFindings[i].category \in {"open_port", "port_probe_error"}
          /\ \A a, b \in 2..Len(netFindings) :
                a < b => netFindings[a].evidence.port < netFindings[b].evidence.port
          /\ \A p \in DOMAIN port_map :
                AboutPort(netFindings, p) =
                   (IF network.connect[p] = "connected" THEN <<"open_port">>
                    ELSE IF network.connect[p] \in {"timeout", "ConnectionRefusedError"}
                    THEN <<>>
                    ELSE <<"port_probe_error">>)

====
